---- MODULE Spec2Model ----
(***************************************************************************)
(* Model of the generic instance reconciler of the aiven operator          *)
(* (controllers/controller.go).  One reconcile pass is one action: it      *)
(* reads the persisted object and its credential secret, runs the state    *)
(* machine of instanceReconcilerHelper.reconcileInstance on an in-memory   *)
(* copy and persists through the store's Update / Status().Update calls.   *)
(* Handler results and store results are the inputs of a pass.             *)
(***************************************************************************)
EXTENDS Integers, Sequences, FiniteSets, TLC

VARIABLES obj, secret, last, hist

vars == <<obj, secret, last, hist>>

\* ------------------------------------------------------------------ bounds
\* Largest generation a spec change can produce in the model.
MaxGen == 2

\* ------------------------------------------------------- program constants
formatIntBaseDecimal == 10
requeueTimeout == 10

secretProtectionFinalizer == "finalizers.aiven.io/needed-to-delete-services"
instanceDeletionFinalizer == "finalizers.aiven.io/delete-remote-resource"
processedGenerationAnnotation == "controllers.aiven.io/generation-was-processed"
instanceIsRunningAnnotation == "controllers.aiven.io/instance-is-running"

\* A finalizer owned by some other controller (the object survives a
\* deletion request until every finalizer is gone).
foreignFinalizer == "example.org/other-owner"

\* ------------------------------------------------------------------ errors
\* An error value: the provider's HTTP status (0 when it is no provider
\* error) and the words of its message.  NoErr is Go's nil error.
NoErr == [status |-> 0, msg |-> <<>>]
ErrInvalidToken == [status |-> 401, msg |-> <<"Invalid", "token">>]
ErrNotFound == [status |-> 404, msg |-> <<"not", "found">>]
ErrServer == [status |-> 500, msg |-> <<"internal", "error">>]
ErrStore == [status |-> 0, msg |-> <<"conflict">>]

\* fmt.Errorf("<prefix>: %w", err): the message keeps the wrapped text.
Wrap(prefix, e) == [status |-> e.status, msg |-> prefix \o e.msg]

\* aiven.IsNotFound
IsNotFound(e) == e.status = 404

\* strings.Contains(err.Error(), pat), on the words of the message
Contains(m, pat) ==
  \E k \in 0..(Len(m) - Len(pat)) :
     \A j \in 1..Len(pat) : m[k + j] = pat[j]

\* ------------------------------------------------------- object predicates
Digit == <<"0", "1", "2", "3", "4", "5", "6", "7", "8", "9">>

\* strconv.FormatInt(n, formatIntBaseDecimal)
RECURSIVE FormatInt(_)
FormatInt(n) ==
  IF n < 0 THEN "-" \o FormatInt(0 - n)
  ELSE IF n < formatIntBaseDecimal THEN Digit[n + 1]
  ELSE FormatInt(n \div formatIntBaseDecimal) \o Digit[(n % formatIntBaseDecimal) + 1]

\* o.GetAnnotations()[k]: the empty string when the key is absent
GetAnnotation(o, k) == IF k \in DOMAIN o.annotations THEN o.annotations[k] ELSE ""

\* metav1.SetMetaDataAnnotation
SetMetaDataAnnotation(o, k, v) ==
  [o EXCEPT !.annotations =
     [x \in (DOMAIN o.annotations) \cup {k} |-> IF x = k THEN v ELSE o.annotations[x]]]

\* delete(a, k) on the annotation map
DeleteAnnotation(o, k) ==
  [o EXCEPT !.annotations = [x \in (DOMAIN o.annotations) \ {k} |-> o.annotations[x]]]

ContainsFinalizer(x, f) == f \in x.finalizers

isMarkedForDeletion(o) == o.deleting

\* isAlreadyProcessed reading the wrong annotation key
isAlreadyProcessedWrongKey(o) ==
  GetAnnotation(o, instanceIsRunningAnnotation) = FormatInt(o.generation)

isAlreadyProcessed(o) ==
  GetAnnotation(o, processedGenerationAnnotation) = FormatInt(o.generation)

isAlreadyRunning(o) == instanceIsRunningAnnotation \in DOMAIN o.annotations

\* ------------------------------------------------------------------- store
\* The object once the store has garbage-collected it.
Gone ==
  [present |-> FALSE, generation |-> 1, annotations |-> <<>>, finalizers |-> {},
   deleting |-> TRUE, statusID |-> ""]

\* The store removes an object that is marked for deletion and has no
\* finalizer left.
Collect(p) == IF p.deleting /\ p.finalizers = {} THEN Gone ELSE p

\* client.Update that writes the finalizers and drops the annotations
StoreUpdateFinalizersOnly(p, o) ==
  Collect([p EXCEPT !.finalizers = o.finalizers])

\* client.Update(ctx, o), accepted: metadata of the in-memory object is
\* persisted (the status is only written through Status().Update).
StoreUpdate(p, o) ==
  Collect([p EXCEPT !.annotations = o.annotations, !.finalizers = o.finalizers])

\* client.Status().Update(ctx, o), accepted: the status is persisted.
StoreStatusUpdate(p, o) == IF p.present THEN [p EXCEPT !.statusID = o.statusID] ELSE p

\* ----------------------------------------------------------------- results
\* ctrl.Result together with the error returned next to it
Result(requeue, after, err) == [requeue |-> requeue, after |-> after, err |-> err]
ResultEmpty == Result(FALSE, 0, NoErr)
ResultRequeue == Result(TRUE, requeueTimeout, NoErr)
ResultError(err) == Result(FALSE, 0, err)

\* One call made by a pass: its name, the boolean it returned (if any), the
\* error it returned, and whether the secret-protection finalizer was on the
\* persisted secret when the call returned.
Event(op, val, err, prot) == [op |-> op, val |-> val, err |-> err, prot |-> prot]

\* A pass in progress: o and ms are the in-memory object and secret, p and s
\* the persisted ones, err the error of the latest call, done/res the return.
Return(c, res) == [c EXCEPT !.done = TRUE, !.res = res]
Called(c, op, val, err) ==
  [c EXCEPT !.calls = Append(@, Event(op, val, err,
                                      ContainsFinalizer(c.s, secretProtectionFinalizer))),
            !.err = err]

\* ----------------------------------------------------------------- handler
\* What a handler's createOrUpdate leaves on the object when the provider
\* call succeeded: the remote identifier and the processed generation.
HandlerCreateOrUpdate(o) ==
  SetMetaDataAnnotation([o EXCEPT !.statusID = "integration-1"],
                        processedGenerationAnnotation, FormatInt(o.generation))

\* What a handler's get leaves on the object when the remote resource is
\* in its ready state: the instance-is-running annotation.
HandlerGet(o) == SetMetaDataAnnotation(o, instanceIsRunningAnnotation, "1")

\* --------------------------------------------------------- finalizer calls
\* addFinalizer on the secret that forgets the client.Update call
addFinalizerSecretNoUpdate(c, f, ok) ==
  LET ms == [c.ms EXCEPT !.finalizers = @ \cup {f}] IN
  Called([c EXCEPT !.ms = ms], "addFinalizer(secret)", TRUE, NoErr)

\* addFinalizer(ctx, client, o, f) on the credential secret
addFinalizerSecret(c, f, ok) ==
  LET ms == [c.ms EXCEPT !.finalizers = @ \cup {f}] IN
  Called([c EXCEPT !.ms = ms, !.s = IF ok THEN ms ELSE @],
         "addFinalizer(secret)", ok, IF ok THEN NoErr ELSE ErrStore)

\* addFinalizer on the object whose write reaches the store although the
\* call reports a failure
addFinalizerWriteLands(c, f, ok) ==
  LET o == [c.o EXCEPT !.finalizers = @ \cup {f}] IN
  Called([c EXCEPT !.o = o, !.p = StoreUpdate(@, o)],
         "addFinalizer(object)", ok, IF ok THEN NoErr ELSE ErrStore)

\* addFinalizer(ctx, client, o, f) on the object
addFinalizer(c, f, ok) ==
  LET o == [c.o EXCEPT !.finalizers = @ \cup {f}] IN
  Called([c EXCEPT !.o = o, !.p = IF ok THEN StoreUpdate(@, o) ELSE @],
         "addFinalizer(object)", ok, IF ok THEN NoErr ELSE ErrStore)

\* removeFinalizer that takes the finalizer off the in-memory object only
removeFinalizerInMemory(c, f, ok) ==
  LET o == [c.o EXCEPT !.finalizers = @ \ {f}] IN
  Called([c EXCEPT !.o = o],
         "removeFinalizer(object)", ok, IF ok THEN NoErr ELSE ErrStore)

\* removeFinalizer that releases the secret together with the object
removeFinalizerReleasesSecret(c, f, ok) ==
  LET o == [c.o EXCEPT !.finalizers = @ \ {f}]
      ms == [c.ms EXCEPT !.finalizers = @ \ {secretProtectionFinalizer}] IN
  Called([c EXCEPT !.o = o, !.p = IF ok THEN StoreUpdate(@, o) ELSE @,
                   !.ms = ms, !.s = IF ok THEN ms ELSE @],
         "removeFinalizer(object)", ok, IF ok THEN NoErr ELSE ErrStore)

\* removeFinalizer(ctx, client, o, f) on the object
removeFinalizer(c, f, ok) ==
  LET o == [c.o EXCEPT !.finalizers = @ \ {f}] IN
  Called([c EXCEPT !.o = o, !.p = IF ok THEN StoreUpdate(@, o) ELSE @],
         "removeFinalizer(object)", ok, IF ok THEN NoErr ELSE ErrStore)

\* ------------------------------------------------------------------ engine
\* canBeDeleted checks if an instance can be deleted despite error
canBeDeleted(o, err) ==
  IF err = NoErr THEN TRUE
  ELSE ~isAlreadyProcessed(o) /\ ~isAlreadyRunning(o)
       /\ Contains(err.msg, <<"Invalid", "token">>)

\* finalize that removes the finalizer whether or not the handler reported
\* the remote resource finalized
finalizeIgnoresFinalised(c, in) ==
  LET c1 == Called(c, "delete", in.finalised, in.delErr) IN
  IF c1.err # NoErr /\ ~canBeDeleted(c1.o, c1.err)
  THEN Return(c1, ResultError(Wrap(<<"unable", "to", "delete", "instance", "at", "aiven:">>, c1.err)))
  ELSE LET c2 == removeFinalizer(c1, instanceDeletionFinalizer, in.updRemove) IN
       IF c2.err # NoErr
       THEN Return(c2, ResultError(Wrap(<<"unable", "to", "remove", "finalizer:">>, c2.err)))
       ELSE Return(c2, ResultEmpty)

\* finalize: in.finalised and in.delErr are what Handler.delete returns
finalize(c, in) ==
  LET c1 == Called(c, "delete", in.finalised, in.delErr) IN
  IF c1.err # NoErr /\ ~canBeDeleted(c1.o, c1.err)
  THEN Return(c1, ResultError(Wrap(<<"unable", "to", "delete", "instance", "at", "aiven:">>, c1.err)))
  ELSE IF ~in.finalised
  THEN Return(c1, ResultRequeue)
  ELSE LET c2 == removeFinalizer(c1, instanceDeletionFinalizer, in.updRemove) IN
       IF c2.err # NoErr
       THEN Return(c2, ResultError(Wrap(<<"unable", "to", "remove", "finalizer:">>, c2.err)))
       ELSE Return(c2, ResultEmpty)

\* checkPreconditions that backs off twice as long when the preconditions
\* are not met
checkPreconditionsBackoff(c, in) ==
  LET c1 == Called(c, "checkPreconditions", in.pre = "true",
                   IF in.pre = "err" THEN ErrServer ELSE NoErr) IN
  IF c1.err # NoErr
  THEN Return(c1, ResultError(Wrap(<<"unable", "to", "wait", "for", "preconditions:">>, c1.err)))
  ELSE IF in.pre # "true"
  THEN Return(c1, Result(TRUE, requeueTimeout + requeueTimeout, NoErr))
  ELSE c1

\* checkPreconditions that goes on when the preconditions are not met
checkPreconditionsFallsThrough(c, in) ==
  LET c1 == Called(c, "checkPreconditions", in.pre = "true",
                   IF in.pre = "err" THEN ErrServer ELSE NoErr) IN
  IF c1.err # NoErr
  THEN Return(c1, ResultError(Wrap(<<"unable", "to", "wait", "for", "preconditions:">>, c1.err)))
  ELSE c1

\* checkPreconditions: in.pre is what Handler.checkPreconditions returns
checkPreconditions(c, in) ==
  LET c1 == Called(c, "checkPreconditions", in.pre = "true",
                   IF in.pre = "err" THEN ErrServer ELSE NoErr) IN
  IF c1.err # NoErr
  THEN Return(c1, ResultError(Wrap(<<"unable", "to", "wait", "for", "preconditions:">>, c1.err)))
  ELSE IF in.pre # "true"
  THEN Return(c1, ResultRequeue)
  ELSE c1

\* createOrUpdateInstance that marks the generation processed itself and
\* drops the handler's error
createOrUpdateInstanceDropsError(c, in) ==
  LET a == DeleteAnnotation(DeleteAnnotation(c.o, processedGenerationAnnotation),
                            instanceIsRunningAnnotation)
      ok == in.cou = "ok"
      c1 == Called([c EXCEPT !.o = HandlerCreateOrUpdate(a)],
                   "createOrUpdate", ok, IF ok THEN NoErr ELSE ErrServer)
  IN [c1 EXCEPT !.err = NoErr]

\* createOrUpdateInstance that persists the stripped annotations before it
\* calls the handler
createOrUpdateInstancePersistsStrip(c, in) ==
  LET a == DeleteAnnotation(DeleteAnnotation(c.o, processedGenerationAnnotation),
                            instanceIsRunningAnnotation)
      ok == in.cou = "ok"
      c1 == Called([c EXCEPT !.o = IF ok THEN HandlerCreateOrUpdate(a) ELSE a,
                             !.p = StoreUpdate(@, a)],
                   "createOrUpdate", ok, IF ok THEN NoErr ELSE ErrServer)
  IN IF ok THEN c1
     ELSE [c1 EXCEPT !.err =
             Wrap(<<"unable", "to", "create", "or", "update", "aiven", "instance:">>, c1.err)]

\* createOrUpdateInstance: the annotations are stripped from the in-memory
\* object, then Handler.createOrUpdate is called (in.cou is its outcome)
createOrUpdateInstance(c, in) ==
  LET a == DeleteAnnotation(DeleteAnnotation(c.o, processedGenerationAnnotation),
                            instanceIsRunningAnnotation)
      ok == in.cou = "ok"
      c1 == Called([c EXCEPT !.o = IF ok THEN HandlerCreateOrUpdate(a) ELSE a],
                   "createOrUpdate", ok, IF ok THEN NoErr ELSE ErrServer)
  IN IF ok THEN c1
     ELSE [c1 EXCEPT !.err =
             Wrap(<<"unable", "to", "create", "or", "update", "aiven", "instance:">>, c1.err)]

\* The error updateInstanceStateAndSecretUntilRunning hands to its caller.
\* Its results are unnamed, so the return statement has copied the body's
\* error into the result before the deferred function assigns the combined
\* persistence errors to the local variable err.
DeferredReturn(bodyErr, persistErr) == bodyErr

\* updateInstanceStateAndSecretUntilRunning without the deferred
\* persistence when the read-back fails
updateInstanceStateAndSecretUntilRunningNoDefer(c, in) ==
  LET getErr == CASE in.get = "notFound" -> ErrNotFound
                  [] in.get = "err" -> ErrServer
                  [] OTHER -> NoErr
      hasSecret == getErr = NoErr /\ in.sec # "nil"
      c1 == Called([c EXCEPT !.o = IF in.get = "running" THEN HandlerGet(@) ELSE @],
                   "get", in.get = "running", getErr)
      c2 == IF hasSecret
            THEN Called(c1, "createOrUpdateSecret", in.sec = "ok",
                        IF in.sec = "ok" THEN NoErr ELSE ErrStore)
            ELSE c1
      bodyErr == IF getErr # NoErr THEN getErr
                 ELSE IF c2.err # NoErr
                 THEN Wrap(<<"unable", "to", "create", "or", "update", "aiven", "secret:">>, c2.err)
                 ELSE NoErr
      bodyRunning == IF bodyErr # NoErr THEN FALSE ELSE isAlreadyRunning(c2.o)
      c3 == Called([c2 EXCEPT !.p = IF in.statusUpdate THEN StoreStatusUpdate(@, c2.o) ELSE @],
                   "Status().Update", in.statusUpdate,
                   IF in.statusUpdate THEN NoErr ELSE ErrStore)
      c4 == Called([c3 EXCEPT !.p = IF in.update THEN StoreUpdate(@, c3.o) ELSE @],
                   "Update", in.update, IF in.update THEN NoErr ELSE ErrStore)
      persistErr == IF c3.err # NoErr THEN c3.err ELSE c4.err
  IN IF bodyErr # NoErr
     THEN [c2 EXCEPT !.err = bodyErr, !.running = FALSE]
     ELSE [c4 EXCEPT !.err = DeferredReturn(bodyErr, persistErr), !.running = bodyRunning]

\* updateInstanceStateAndSecretUntilRunning: in.get is the outcome of
\* Handler.get, in.sec the secret it returns and whether materializing it
\* works, in.statusUpdate / in.update the store's answers in the deferred
\* function.
updateInstanceStateAndSecretUntilRunning(c, in) ==
  LET getErr == CASE in.get = "notFound" -> ErrNotFound
                  [] in.get = "err" -> ErrServer
                  [] OTHER -> NoErr
      hasSecret == getErr = NoErr /\ in.sec # "nil"
      c1 == Called([c EXCEPT !.o = IF in.get = "running" THEN HandlerGet(@) ELSE @],
                   "get", in.get = "running", getErr)
      c2 == IF hasSecret
            THEN Called(c1, "createOrUpdateSecret", in.sec = "ok",
                        IF in.sec = "ok" THEN NoErr ELSE ErrStore)
            ELSE c1
      bodyErr == IF getErr # NoErr THEN getErr
                 ELSE IF c2.err # NoErr
                 THEN Wrap(<<"unable", "to", "create", "or", "update", "aiven", "secret:">>, c2.err)
                 ELSE NoErr
      bodyRunning == IF bodyErr # NoErr THEN FALSE ELSE isAlreadyRunning(c2.o)
      \* deferred: both persistence attempts, errors appended
      c3 == Called([c2 EXCEPT !.p = IF in.statusUpdate THEN StoreStatusUpdate(@, c2.o) ELSE @],
                   "Status().Update", in.statusUpdate,
                   IF in.statusUpdate THEN NoErr ELSE ErrStore)
      c4 == Called([c3 EXCEPT !.p = IF in.update THEN StoreUpdate(@, c3.o) ELSE @],
                   "Update", in.update, IF in.update THEN NoErr ELSE ErrStore)
      persistErr == IF c3.err # NoErr THEN c3.err ELSE c4.err
  IN [c4 EXCEPT !.err = DeferredReturn(bodyErr, persistErr), !.running = bodyRunning]

\* instanceReconcilerHelper.reconcileInstance that finalizes every object
\* marked for deletion, with or without the deletion finalizer
helperReconcileInstanceAlwaysFinalizes(c, in) ==
  IF isMarkedForDeletion(c.o)
  THEN finalize(c, in)
  ELSE
  LET c1 == IF ~ContainsFinalizer(c.ms, secretProtectionFinalizer)
            THEN addFinalizerSecret(c, secretProtectionFinalizer, in.updSecret)
            ELSE c
  IN IF c1.err # NoErr
     THEN Return(c1, ResultError(Wrap(<<"unable", "to", "add", "finalizer", "to", "secret:">>, c1.err)))
     ELSE
  LET c2 == IF ~ContainsFinalizer(c1.o, instanceDeletionFinalizer)
            THEN addFinalizer(c1, instanceDeletionFinalizer, in.updObject)
            ELSE c1
  IN IF c2.err # NoErr
     THEN Return(c2, ResultError(Wrap(<<"unable", "to", "add", "finalizer", "to", "instance:">>, c2.err)))
     ELSE
  LET c3 == checkPreconditions(c2, in)
  IN IF c3.done THEN c3 ELSE
  LET c4 == IF ~isAlreadyProcessed(c3.o) THEN createOrUpdateInstance(c3, in) ELSE c3
  IN IF c4.err # NoErr
     THEN Return(c4, ResultError(Wrap(<<"unable", "to", "create", "or", "update", "instance", "at", "aiven:">>, c4.err)))
     ELSE
  LET c5 == updateInstanceStateAndSecretUntilRunning(c4, in)
  IN IF c5.err # NoErr
     THEN IF IsNotFound(c5.err)
          THEN Return(c5, ResultRequeue)
          ELSE Return(c5, ResultError(Wrap(<<"unable", "to", "wait", "until", "instance", "is", "running:">>, c5.err)))
     ELSE IF ~c5.running
     THEN Return(c5, ResultRequeue)
     ELSE Return(c5, ResultEmpty)

\* instanceReconcilerHelper.reconcileInstance
helperReconcileInstance(c, in) ==
  IF isMarkedForDeletion(c.o)
  THEN IF ContainsFinalizer(c.o, instanceDeletionFinalizer)
       THEN finalize(c, in)
       ELSE Return(c, ResultEmpty)
  ELSE
  LET c1 == IF ~ContainsFinalizer(c.ms, secretProtectionFinalizer)
            THEN addFinalizerSecret(c, secretProtectionFinalizer, in.updSecret)
            ELSE c
  IN IF c1.err # NoErr
     THEN Return(c1, ResultError(Wrap(<<"unable", "to", "add", "finalizer", "to", "secret:">>, c1.err)))
     ELSE
  LET c2 == IF ~ContainsFinalizer(c1.o, instanceDeletionFinalizer)
            THEN addFinalizer(c1, instanceDeletionFinalizer, in.updObject)
            ELSE c1
  IN IF c2.err # NoErr
     THEN Return(c2, ResultError(Wrap(<<"unable", "to", "add", "finalizer", "to", "instance:">>, c2.err)))
     ELSE
  LET c3 == checkPreconditions(c2, in)
  IN IF c3.done THEN c3 ELSE
  LET c4 == IF ~isAlreadyProcessed(c3.o) THEN createOrUpdateInstance(c3, in) ELSE c3
  IN IF c4.err # NoErr
     THEN Return(c4, ResultError(Wrap(<<"unable", "to", "create", "or", "update", "instance", "at", "aiven:">>, c4.err)))
     ELSE
  LET c5 == updateInstanceStateAndSecretUntilRunning(c4, in)
  IN IF c5.err # NoErr
     THEN IF IsNotFound(c5.err)
          THEN Return(c5, ResultRequeue)
          ELSE Return(c5, ResultError(Wrap(<<"unable", "to", "wait", "until", "instance", "is", "running:">>, c5.err)))
     ELSE IF ~c5.running
     THEN Return(c5, ResultRequeue)
     ELSE Return(c5, ResultEmpty)

\* A pass starting from the persisted object p and secret s.
Start(p, s) ==
  [o |-> p, ms |-> s, p |-> p, s |-> s, calls |-> <<>>, err |-> NoErr,
   running |-> FALSE, loaded |-> FALSE, load |-> "ok", done |-> FALSE,
   res |-> ResultEmpty]

\* Controller.reconcileInstance that reports a secret or client failure but
\* goes on to the helper instead of returning
reconcileInstanceNoReturn(p, s, in) ==
  LET c == Start(p, s) IN
  IF ~p.present THEN Return([c EXCEPT !.load = "gone"], ResultEmpty)
  ELSE IF ~in.objGet THEN Return([c EXCEPT !.load = "object"], ResultError(ErrStore))
  ELSE helperReconcileInstance(
         [c EXCEPT !.loaded = TRUE,
                   !.load = IF ~in.secretGet THEN "secret"
                            ELSE IF ~in.newClient THEN "client" ELSE "ok"], in)

\* Controller.reconcileInstance: load the object and the secret, build the
\* provider client, run the helper.  load names the step that ended the
\* loading: the object is gone, the object, the secret or the client could
\* not be had, or all three were ("ok").
reconcileInstance(p, s, in) ==
  LET c == Start(p, s) IN
  IF ~p.present THEN Return([c EXCEPT !.load = "gone"], ResultEmpty)
  ELSE IF ~in.objGet THEN Return([c EXCEPT !.load = "object"], ResultError(ErrStore))
  ELSE IF ~in.secretGet
  THEN Return([c EXCEPT !.load = "secret"],
              ResultError(Wrap(<<"cannot", "get", "secret:">>, ErrStore)))
  ELSE IF ~in.newClient
  THEN Return([c EXCEPT !.load = "client"],
              ResultError(Wrap(<<"cannot", "initialize", "aiven", "client:">>, ErrServer)))
  ELSE helperReconcileInstance([c EXCEPT !.loaded = TRUE], in)

\* ------------------------------------------------- user configuration
\* A Go value handed to UserConfigurationToAPI or returned by it: its kind,
\* the text of a scalar (val) and what it holds (sub): the pointee of a
\* pointer (no element when the pointer is nil, val naming the pointee's
\* kind), the fields of a structure by json tag, the entries of a map by
\* key.  "nil" is the nil interface value, "panic" a run-time panic.
Scalar(k, s) == [kind |-> k, sub |-> <<>>, val |-> s]
NilPointer(k) == [kind |-> "ptr", sub |-> <<>>, val |-> k]
PointerTo(x) == [kind |-> "ptr", sub |-> <<x>>, val |-> x.kind]
Structure(fields) == [kind |-> "struct", sub |-> fields, val |-> ""]
Mapping(entries) == [kind |-> "map", sub |-> entries, val |-> ""]
NilInterface == [kind |-> "nil", sub |-> <<>>, val |-> ""]
Panic == [kind |-> "panic", sub |-> <<>>, val |-> ""]

\* strings.ReplaceAll(tag, ",omitempty", ""), the tag given in its parts
JsonName(tag) == SelectSeq(tag, LAMBDA x : x # ",omitempty")

\* isNil: the nil interface, or a nil pointer
isNil(i) ==
  \/ i.kind = "nil"
  \/ i.kind = "ptr" /\ i.sub = <<>>

\* UserConfigurationToAPI.  A pointer is resolved to look at the kind of
\* what it points to (a nil pointer resolves to no value at all); what is
\* returned for a value that is no structure is the pointee for int64 and
\* bool, read through a type assertion on c that panics when c is no
\* pointer, and c itself, pointer or not, for every other kind.  The
\* pruning loop asks reflect.TypeOf(val).Kind() of every value, which
\* panics on the nil interface.
RECURSIVE UserConfigurationToAPI(_)
UserConfigurationToAPI(c) ==
  LET v == IF c.kind = "ptr"
           THEN IF c.sub = <<>> THEN NilInterface ELSE c.sub[1]
           ELSE c
  IN
  IF v.kind # "struct"
  THEN IF v.kind \in {"int64", "bool"}
       THEN IF c.kind = "ptr" THEN c.sub[1] ELSE Panic
       ELSE c
  ELSE
    LET raw == [n \in {JsonName(tag) : tag \in DOMAIN v.sub} |->
                  UserConfigurationToAPI(
                    v.sub[CHOOSE tag \in DOMAIN v.sub : JsonName(tag) = n])]
        Deleted(val) ==
          \/ isNil(val)
          \/ val.kind = "string" /\ val.val = ""
          \/ val.kind = "map" /\ DOMAIN val.sub = {}
    IN IF \E n \in DOMAIN raw : raw[n].kind \in {"panic", "nil"}
       THEN Panic
       ELSE Mapping([n \in {k \in DOMAIN raw : ~Deleted(raw[k])} |-> raw[n]])

\* ------------------------------------------- service integration handler
\* ServiceIntegrationHandler.delete that reports every provider error
ServiceIntegrationDeleteStrict(answer) ==
  IF answer # NoErr
  THEN [finalised |-> FALSE,
        err |-> Wrap(<<"aiven", "client", "delete", "service", "ingtegration", "error:">>,
                     answer)]
  ELSE [finalised |-> TRUE, err |-> NoErr]

\* ServiceIntegrationHandler.delete: answer is the error of the provider's
\* ServiceIntegrations.Delete (NoErr when it deleted the integration)
ServiceIntegrationDelete(answer) ==
  IF answer # NoErr /\ ~IsNotFound(answer)
  THEN [finalised |-> FALSE,
        err |-> Wrap(<<"aiven", "client", "delete", "service", "ingtegration", "error:">>,
                     answer)]
  ELSE [finalised |-> TRUE, err |-> NoErr]

\* checkServiceIsRunning: answer is the provider's Services.Get result, an
\* error or the state of the service
checkServiceIsRunning(answer) ==
  IF answer.err # NoErr
  THEN IF IsNotFound(answer.err)
       THEN [val |-> FALSE, err |-> NoErr]
       ELSE [val |-> FALSE, err |-> answer.err]
  ELSE [val |-> answer.state = "RUNNING", err |-> NoErr]

\* ServiceIntegrationHandler.checkPreconditions: source and destination
\* service both running; the destination is asked only when the source is
\* running, and an error of a dependency check is handed on.
ServiceIntegrationCheckPreconditions(src, dst) ==
  LET a == checkServiceIsRunning(src)
      b == checkServiceIsRunning(dst)
  IN IF a.err # NoErr THEN a
     ELSE IF ~a.val THEN a
     ELSE b

\* What the provider can answer to Services.Get and ServiceIntegrations.Delete
ServiceRunning == [err |-> NoErr, state |-> "RUNNING"]
ServiceAnswers ==
  {ServiceRunning, [err |-> NoErr, state |-> "REBUILDING"],
   [err |-> ErrNotFound, state |-> ""], [err |-> ErrServer, state |-> ""]}
DeleteAnswers == {NoErr, ErrNotFound, ErrServer, ErrInvalidToken}

\* The provider's answers in a pass that asked the provider nothing.
NoAnswers ==
  [del |-> NoErr, src |-> ServiceRunning, dst |-> ServiceRunning,
   cou |-> [err |-> NoErr, id |-> ""]]

\* The provider's "user config not changed" answer to an update
ErrNotChanged == [status |-> 400, msg |-> <<"user", "config", "not", "changed">>]

\* The run-time panic of reading a field through a nil pointer
ErrNilDereference == [status |-> 0, msg |-> <<"nil", "pointer", "dereference">>]

\* ServiceIntegrationHandler.createOrUpdate on the object si, the provider
\* answering answer (an error, or the identifier of the integration) to the
\* create or update it is sent.  returned tells whether the function came
\* back to its caller, o is the object it hands back (si itself when it
\* returns no object).  The create branch discards the integration the
\* provider returns, so the variable integration is still nil where its
\* ServiceIntegrationID is read.
ServiceIntegrationCreateOrUpdate(si, answer) ==
  LET marked(id) ==
        SetMetaDataAnnotation([si EXCEPT !.statusID = id],
                              processedGenerationAnnotation, FormatInt(si.generation))
  IN IF si.statusID = ""
     THEN IF answer.err # NoErr
          THEN [call |-> "ServiceIntegrations.Create", returned |-> TRUE, o |-> si,
                err |-> Wrap(<<"cannot", "createOrUpdate", "service", "integration:">>,
                             answer.err)]
          ELSE [call |-> "ServiceIntegrations.Create", returned |-> FALSE, o |-> si,
                err |-> ErrNilDereference]
     ELSE IF answer.err # NoErr
          THEN IF Contains(answer.err.msg, <<"user", "config", "not", "changed">>)
               THEN [call |-> "ServiceIntegrations.Update", returned |-> TRUE, o |-> si,
                     err |-> NoErr]
               ELSE [call |-> "ServiceIntegrations.Update", returned |-> TRUE, o |-> si,
                     err |-> answer.err]
          ELSE [call |-> "ServiceIntegrations.Update", returned |-> TRUE,
                o |-> marked(answer.id), err |-> NoErr]

\* What the provider can answer to the create or update of an integration
CreateOrUpdateAnswers(si) ==
  {[err |-> NoErr, id |-> "integration-1"], [err |-> ErrServer, id |-> ""]} \cup
  IF si.statusID = "" THEN {} ELSE {[err |-> ErrNotChanged, id |-> ""]}

\* ------------------------------------------------------------------ inputs
\* What the store and the handler answer during one pass.  AllFine is the
\* pass in which everything works and the remote resource is ready; the
\* other inputs vary the answers up to the first call that ends the pass.
AllFine ==
  [objGet |-> TRUE, secretGet |-> TRUE, newClient |-> TRUE,
   updSecret |-> TRUE, updObject |-> TRUE,
   pre |-> "true", cou |-> "ok", get |-> "running", sec |-> "nil",
   statusUpdate |-> TRUE, update |-> TRUE,
   finalised |-> TRUE, delErr |-> NoErr, updRemove |-> TRUE]

LoadInputs ==
  {[AllFine EXCEPT !.objGet = FALSE], [AllFine EXCEPT !.secretGet = FALSE],
   [AllFine EXCEPT !.newClient = FALSE]}

DeleteInputs ==
  {[AllFine EXCEPT !.finalised = f, !.delErr = e, !.updRemove = u] :
     f \in BOOLEAN, e \in {NoErr, ErrInvalidToken, ErrServer}, u \in BOOLEAN}

GateInputs ==
  {[AllFine EXCEPT !.pre = x] : x \in {"false", "err"}}
  \cup {[AllFine EXCEPT !.cou = "err"]}

ReadBackInputs ==
  {[AllFine EXCEPT !.get = g, !.sec = x, !.statusUpdate = su, !.update = u] :
     g \in {"running", "notRunning"}, x \in {"nil", "ok", "err"},
     su \in BOOLEAN, u \in BOOLEAN}
  \cup
  {[AllFine EXCEPT !.get = g, !.statusUpdate = su, !.update = u] :
     g \in {"notFound", "err"}, su \in BOOLEAN, u \in BOOLEAN}

\* The inputs a pass from the persisted object p and secret s consults: an
\* answer is varied only when the pass can reach the call that asks for it.
Inputs(p, s) ==
  IF ~p.present THEN {AllFine}
  ELSE IF isMarkedForDeletion(p)
  THEN LoadInputs \cup
       (IF ContainsFinalizer(p, instanceDeletionFinalizer) THEN DeleteInputs ELSE {AllFine})
  ELSE LoadInputs \cup
       {[x EXCEPT !.updSecret = a, !.updObject = b] :
          x \in {y \in GateInputs : y.cou = "ok" \/ ~isAlreadyProcessed(p)} \cup ReadBackInputs,
          a \in {TRUE} \cup {ContainsFinalizer(s, secretProtectionFinalizer)},
          b \in {TRUE} \cup {ContainsFinalizer(p, instanceDeletionFinalizer)}}

\* The inputs of a pass whose handler is the service integration handler,
\* each with the provider answers it comes from: delete and
\* checkPreconditions return what the handler makes of the answers, get
\* marks the integration running and returns no secret; createOrUpdate
\* succeeds or fails as the Handlers interface allows (the handler's own
\* createOrUpdate is the subject of SpecCreateOrUpdate).
ServiceIntegrationInputs(p, s) ==
  IF ~p.present THEN {[in |-> AllFine, provider |-> NoAnswers]}
  ELSE {[in |-> x, provider |-> NoAnswers] : x \in LoadInputs} \cup
  IF isMarkedForDeletion(p)
  THEN IF ContainsFinalizer(p, instanceDeletionFinalizer)
       THEN {[in |-> [AllFine EXCEPT !.finalised = ServiceIntegrationDelete(d).finalised,
                                     !.delErr = ServiceIntegrationDelete(d).err,
                                     !.updRemove = u],
              provider |-> [NoAnswers EXCEPT !.del = d]] :
               d \in DeleteAnswers, u \in BOOLEAN}
       ELSE {[in |-> AllFine, provider |-> NoAnswers]}
  ELSE LET Pre(src, dst) ==
             LET r == ServiceIntegrationCheckPreconditions(src, dst) IN
             IF r.err # NoErr THEN "err" ELSE IF r.val THEN "true" ELSE "false"
           Asked == {q \in ServiceAnswers \X ServiceAnswers :
                       q[2] = ServiceRunning \/ checkServiceIsRunning(q[1]).val}
           Rest == {[AllFine EXCEPT !.cou = x, !.statusUpdate = su, !.update = u] :
                       x \in {"ok"} \cup (IF isAlreadyProcessed(p) THEN {} ELSE {"err"}),
                       su \in BOOLEAN, u \in BOOLEAN}
       IN {[in |-> [x EXCEPT !.pre = Pre(q[1], q[2]), !.updSecret = a, !.updObject = b],
            provider |-> [NoAnswers EXCEPT !.src = q[1], !.dst = q[2]]] :
             q \in Asked,
             x \in Rest,
             a \in {TRUE} \cup {ContainsFinalizer(s, secretProtectionFinalizer)},
             b \in {TRUE} \cup {ContainsFinalizer(p, instanceDeletionFinalizer)}}

\* ------------------------------------------------------------ state machine
\* A newly created object: generation 1, no annotations, no status, and no
\* finalizer of this engine (another controller may hold one of its own).
NewObject(fs) ==
  [present |-> TRUE, generation |-> 1, annotations |-> <<>>, finalizers |-> fs,
   deleting |-> FALSE, statusID |-> ""]

NewSecret == [finalizers |-> {}]

\* The record of the latest pass: whether it got past loading the object, the
\* secret and the client (loaded), the persisted state it started from (pre,
\* preSecret), the in-memory object it ended with (o), the calls it made, the
\* result it returned and the persisted state it left (post, postSecret).
PassRecord(p, s, c) ==
  [ran |-> TRUE, loaded |-> c.loaded, load |-> c.load, pre |-> p, preSecret |-> s, o |-> c.o, calls |-> c.calls,
   res |-> c.res, post |-> c.p, postSecret |-> c.s]

\* The history after a pass c from object p: the generations for which a
\* createOrUpdate call succeeded, whether a get confirmed the ready state,
\* and what the provider answered to the handler in this pass.
History(h, p, c, answers) ==
  [created |->
     IF \E k \in 1..Len(c.calls) :
          c.calls[k].op = "createOrUpdate" /\ c.calls[k].err = NoErr
     THEN h.created \cup {p.generation} ELSE h.created,
   confirmed |->
     \/ h.confirmed
     \/ \E k \in 1..Len(c.calls) : c.calls[k].op = "get" /\ c.calls[k].val,
   provider |-> answers]

Init ==
  /\ obj \in {NewObject({}), NewObject({foreignFinalizer})}
  /\ secret = NewSecret
  /\ last = [PassRecord(obj, secret, Start(obj, secret)) EXCEPT !.ran = FALSE]
  /\ hist = [created |-> {}, confirmed |-> FALSE, provider |-> NoAnswers]

\* One reconcile pass.
Reconcile ==
  \E c \in {reconcileInstance(obj, secret, in) : in \in Inputs(obj, secret)} :
    /\ obj' = c.p
    /\ secret' = c.s
    /\ last' = PassRecord(obj, secret, c)
    /\ hist' = History(hist, obj, c, NoAnswers)

\* The owner changes the object's spec: the store bumps the generation.
SpecChange ==
  /\ obj.present
  /\ obj.generation < MaxGen
  /\ obj' = [obj EXCEPT !.generation = @ + 1]
  /\ UNCHANGED <<secret, last, hist>>

\* The owner asks for deletion: the store sets the deletion timestamp.
MarkForDeletion ==
  /\ obj.present
  /\ ~obj.deleting
  /\ obj' = Collect([obj EXCEPT !.deleting = TRUE])
  /\ UNCHANGED <<secret, last, hist>>

\* Another controller releases its own finalizer.
ForeignRelease ==
  /\ obj.present
  /\ foreignFinalizer \in obj.finalizers
  /\ obj' = Collect([obj EXCEPT !.finalizers = @ \ {foreignFinalizer}])
  /\ UNCHANGED <<secret, last, hist>>

Next == Reconcile \/ SpecChange \/ MarkForDeletion \/ ForeignRelease

\* The persisted states of the object and of the secret.
ObjectStates ==
  LET Processed(o) ==
        {o} \cup {SetMetaDataAnnotation(o, processedGenerationAnnotation, FormatInt(g)) :
                    g \in 1..MaxGen}
      Running(o) == {o, SetMetaDataAnnotation(o, instanceIsRunningAnnotation, "1")}
      Base == {[NewObject(fs) EXCEPT !.generation = g, !.statusID = id, !.deleting = d] :
                 fs \in SUBSET {instanceDeletionFinalizer, foreignFinalizer},
                 g \in 1..MaxGen, id \in {"", "integration-1"}, d \in BOOLEAN}
  IN {Gone} \cup UNION {UNION {Running(x) : x \in Processed(b)} : b \in Base}
SecretStates == {[finalizers |-> fs] : fs \in SUBSET {secretProtectionFinalizer}}

\* What a pass makes of each persisted state when everything it asks
\* cooperates (reconcileInstance with the answers AllFine), tabulated once
\* and grouped by the object's generation, deletion mark and finalizers.
OutcomeKey(p) == <<p.generation, p.deleting, p.finalizers>>
CooperativeOutcome ==
  {[key |-> k,
    rows |-> {[p |-> x[1], s |-> x[2], c |-> reconcileInstance(x[1], x[2], AllFine)] :
                x \in {y \in ObjectStates \X SecretStates : OutcomeKey(y[1]) = k}}] :
     k \in {OutcomeKey(p) : p \in ObjectStates}}

\* A reconcile pass in which the store, the secret, the client and the
\* handler all cooperate: everything loads, preconditions are met,
\* createOrUpdate succeeds, get reports the ready state, delete reports
\* finalized without error and every update is accepted.
CooperativePass ==
  \E g \in CooperativeOutcome :
    /\ g.key = OutcomeKey(obj)
    /\ \E x \in g.rows :
         /\ x.p = obj /\ x.s = secret
         /\ obj' = x.c.p
         /\ secret' = x.c.s
         /\ last' = PassRecord(obj, secret, x.c)
         /\ hist' = History(hist, obj, x.c, NoAnswers)

\* Passes keep being scheduled (requeues, watch events and the periodic
\* resync all enqueue the object again) and, again and again, one of them
\* meets a cooperating handler and store.
LiveSpec == Init /\ [][Next]_vars /\ WF_vars(CooperativePass)

\* One reconcile pass of the ServiceIntegrationReconciler.
ReconcileServiceIntegration ==
  \E x \in {[c |-> reconcileInstance(obj, secret, y.in), provider |-> y.provider] :
              y \in ServiceIntegrationInputs(obj, secret)} :
    /\ obj' = x.c.p
    /\ secret' = x.c.s
    /\ last' = PassRecord(obj, secret, x.c)
    /\ hist' = History(hist, obj, x.c, x.provider)

\* The service integration objects createOrUpdate can be handed: with or
\* without a remote identifier, at any generation, with any annotations.
ServiceIntegrationObjects ==
  LET Processed(o) ==
        {o} \cup {SetMetaDataAnnotation(o, processedGenerationAnnotation, FormatInt(g)) :
                    g \in 1..MaxGen}
      Running(o) == {o, SetMetaDataAnnotation(o, instanceIsRunningAnnotation, "1")}
      Base == {[NewObject(fs) EXCEPT !.generation = g, !.statusID = id] :
                 fs \in SUBSET {instanceDeletionFinalizer, foreignFinalizer},
                 g \in 1..MaxGen, id \in {"", "integration-1"}}
  IN UNION {UNION {Running(x) : x \in Processed(b)} : b \in Base}

InitCreateOrUpdate ==
  /\ obj \in ServiceIntegrationObjects
  /\ secret = NewSecret
  /\ last = [PassRecord(obj, secret, Start(obj, secret)) EXCEPT !.ran = FALSE]
  /\ hist = [created |-> {}, confirmed |-> FALSE, provider |-> NoAnswers]

\* One call of ServiceIntegrationHandler.createOrUpdate on the object.
CreateOrUpdateCall ==
  \E answer \in CreateOrUpdateAnswers(obj) :
    LET r == ServiceIntegrationCreateOrUpdate(obj, answer) IN
    /\ last' = [PassRecord(obj, secret, Start(obj, secret)) EXCEPT
                  !.o = r.o,
                  !.calls = <<Event(r.call, r.returned, r.err, FALSE)>>]
    /\ hist' = [hist EXCEPT !.provider = [NoAnswers EXCEPT !.cou = answer]]
    /\ UNCHANGED <<obj, secret>>

SpecCreateOrUpdate == InitCreateOrUpdate /\ [][CreateOrUpdateCall]_vars

\* The largest integer a configuration field holds.
MaxInt == 1

\* The user configuration structures handed to UserConfigurationToAPI:
\* optional int64, bool and string fields behind pointers, a plain string
\* field, and a nested structure behind a pointer.
OptionalInt == {NilPointer("int64")} \cup {PointerTo(Scalar("int64", FormatInt(n))) : n \in 0..MaxInt}
OptionalBool == {NilPointer("bool")} \cup {PointerTo(Scalar("bool", b)) : b \in {"true", "false"}}
OptionalString == {NilPointer("string")} \cup {PointerTo(Scalar("string", s)) : s \in {"", "x"}}
PlainString == {Scalar("string", s) : s \in {"", "x"}}
NestedConfigurations ==
  {NilPointer("struct")} \cup
  {PointerTo(Structure([tag \in {<<"enabled", ",omitempty">>, <<"name", ",omitempty">>} |->
                          IF tag[1] = "enabled" THEN b ELSE s])) :
     b \in {NilPointer("bool"), PointerTo(Scalar("bool", "true"))},
     s \in {NilPointer("string"), PointerTo(Scalar("string", "x"))}}
UserConfigurations ==
  {Structure([tag \in {<<"limit", ",omitempty">>, <<"enabled", ",omitempty">>,
                        <<"name", ",omitempty">>, <<"plan", ",omitempty">>,
                        <<"nested", ",omitempty">>} |->
                CASE tag[1] = "limit" -> i
                  [] tag[1] = "enabled" -> b
                  [] tag[1] = "name" -> s
                  [] tag[1] = "plan" -> q
                  [] OTHER -> n]) :
     i \in OptionalInt, b \in OptionalBool, s \in OptionalString,
     q \in PlainString, n \in NestedConfigurations}

\* obj is the configuration handed to the function, last the latest call.
InitUserConfiguration ==
  /\ obj \in UserConfigurations
  /\ secret = NewSecret
  /\ last = [ran |-> FALSE, c |-> obj, result |-> Mapping(<<>>)]
  /\ hist = [created |-> {}, confirmed |-> FALSE, provider |-> NoAnswers]

\* One call of UserConfigurationToAPI on the configuration.
UserConfigurationCall ==
  /\ last' = [ran |-> TRUE, c |-> obj, result |-> UserConfigurationToAPI(obj)]
  /\ UNCHANGED <<obj, secret, hist>>

SpecUserConfiguration == InitUserConfiguration /\ [][UserConfigurationCall]_vars

NextServiceIntegration ==
  ReconcileServiceIntegration \/ SpecChange \/ MarkForDeletion \/ ForeignRelease

SpecServiceIntegration == Init /\ [][NextServiceIntegration]_vars

Spec == Init /\ [][Next]_vars

\* =================================================================== claims
\* Vocabulary for statements about the latest pass.
CallIdx(op) == {k \in DOMAIN last.calls : last.calls[k].op = op}
Made(op) == CallIdx(op) # {}
TheCall(op) == last.calls[CHOOSE k \in CallIdx(op) : TRUE]
HandlerOps == {"checkPreconditions", "createOrUpdate", "get", "delete"}

\* The pass ran the helper on a live object / on an object in its finalizing case.
LivePass == last.ran /\ last.loaded /\ last.pre.present /\ ~last.pre.deleting
FinalizingPass ==
  /\ last.ran /\ last.loaded /\ last.pre.present /\ last.pre.deleting
  /\ instanceDeletionFinalizer \in last.pre.finalizers

\* The annotation facts, read off the object without the engine's predicates.
HasProcessedAnnotation(o) == processedGenerationAnnotation \in DOMAIN o.annotations
ProcessedAtCurrentGeneration(o) ==
  /\ HasProcessedAnnotation(o)
  /\ o.annotations[processedGenerationAnnotation] = FormatInt(o.generation)
HasRunningAnnotation(o) == instanceIsRunningAnnotation \in DOMAIN o.annotations
InvalidCredential(err) == err # NoErr /\ Contains(err.msg, <<"Invalid", "token">>)

\* The forced-removal exception of the finalizing sub-flow.
ForcedRemoval(o, err) ==
  /\ InvalidCredential(err)
  /\ ~ProcessedAtCurrentGeneration(o)
  /\ ~HasRunningAnnotation(o)

\* C1: in a pass over an object marked for deletion that carries the deletion
\* finalizer, Handler.delete is invoked, and the pass removes the deletion
\* finalizer if and only if delete reported finalized (true, no error) or the
\* forced-removal exception applies.
C1_RemovedIffFinalizedOrForced ==
  FinalizingPass =>
    /\ Made("delete")
    /\ LET d == TheCall("delete") IN
       Made("removeFinalizer(object)") <=>
         ((d.val /\ d.err = NoErr) \/ ForcedRemoval(last.pre, d.err))

\* C2: when the object was never processed and never running and delete fails
\* with an invalid-credential error, the pass removes the deletion finalizer
\* and persists the removal (the store accepting it), whatever finalized flag
\* came with the error.
C2_ForcedRemovalDespiteError ==
  (/\ FinalizingPass
   /\ ~HasProcessedAnnotation(last.pre)
   /\ ~HasRunningAnnotation(last.pre)
   /\ InvalidCredential(TheCall("delete").err))
  =>
  /\ Made("removeFinalizer(object)")
  /\ (TheCall("removeFinalizer(object)").err = NoErr =>
        ~(last.post.present /\ instanceDeletionFinalizer \in last.post.finalizers))

\* C3: an object that carries a "generation processed" annotation, whatever
\* its value, never qualifies for forced removal: for every delete error
\* canBeDeleted is false and the deletion finalizer is retained.
C3_ProcessedNeverForced ==
  (/\ FinalizingPass
   /\ HasProcessedAnnotation(last.pre)
   /\ TheCall("delete").err # NoErr)
  =>
  /\ ~canBeDeleted(last.pre, TheCall("delete").err)
  /\ last.post.present
  /\ instanceDeletionFinalizer \in last.post.finalizers

\* C4 as stated: with "generation processed" equal to the current generation
\* a pass issues no createOrUpdate, and when Handler.get reports not-running
\* (no error, object left without the running annotation) the pass returns
\* requeue after 10s.
C4_ProcessedNotRunningRequeues ==
  (LivePass /\ ProcessedAtCurrentGeneration(last.pre)) =>
    /\ ~Made("createOrUpdate")
    /\ (Made("get") /\ TheCall("get").err = NoErr /\ ~HasRunningAnnotation(last.o))
         => last.res = Result(TRUE, 10, NoErr)

\* C4 amended: with "generation processed" equal to the current generation a
\* pass issues no createOrUpdate; when Handler.get reports not-running and
\* materializing the secret it returned (if any) does not fail, the pass
\* returns requeue after 10s; when that materialization fails the pass
\* returns an error instead.
C4_ProcessedNoCreateOrUpdate ==
  (LivePass /\ ProcessedAtCurrentGeneration(last.pre)) =>
    /\ ~Made("createOrUpdate")
    /\ (Made("get") /\ TheCall("get").err = NoErr /\ ~HasRunningAnnotation(last.o))
         => IF Made("createOrUpdateSecret") /\ TheCall("createOrUpdateSecret").err # NoErr
            THEN ~last.res.requeue /\ last.res.err # NoErr
            ELSE last.res = Result(TRUE, 10, NoErr)

\* C4 witness: a repeated pass over a processed object whose read-back is
\* not-running ends in the 10s requeue without a createOrUpdate call.
C4_Witness ==
  /\ LivePass /\ ProcessedAtCurrentGeneration(last.pre)
  /\ Made("get") /\ TheCall("get").err = NoErr /\ ~HasRunningAnnotation(last.o)
  /\ ~Made("createOrUpdate")
  /\ last.res = Result(TRUE, 10, NoErr)

\* C5: every Handler call of a pass, and the call that adds the deletion
\* finalizer to the object, happens with the secret-protection finalizer
\* already persisted on the credential secret.
C5_SecretProtectedFirst ==
  last.ran =>
    \A k \in DOMAIN last.calls :
      last.calls[k].op \in HandlerOps \cup {"addFinalizer(object)"} => last.calls[k].prot

\* C5 witness: a pass over a newly observed object (secret not yet protected)
\* that added the deletion finalizer and went on to call the handler.
C5_Witness ==
  /\ LivePass
  /\ secretProtectionFinalizer \notin last.preSecret.finalizers
  /\ Made("addFinalizer(secret)") /\ Made("addFinalizer(object)")
  /\ Made("checkPreconditions") /\ Made("createOrUpdate") /\ Made("get")

\* The pass started from a newly created object: generation 1, no
\* annotations, neither of the engine's finalizers.
FreshStart ==
  /\ LivePass
  /\ last.pre.generation = 1
  /\ DOMAIN last.pre.annotations = {}
  /\ instanceDeletionFinalizer \notin last.pre.finalizers
  /\ secretProtectionFinalizer \notin last.preSecret.finalizers

\* C6: the persisted "generation processed" annotation equals generation g
\* only if a createOrUpdate call issued for g returned success; and a pass
\* from a fresh generation-1 object that gets through the precondition gate
\* has both finalizers persisted when it invokes createOrUpdate, and leaves
\* "generation processed" = "1" only by persisting after that call succeeded.
C6_ProcessedOnlyAfterSuccess ==
  /\ obj.present =>
       \A g \in 1..MaxGen :
         GetAnnotation(obj, processedGenerationAnnotation) = FormatInt(g) => g \in hist.created
  /\ (last.ran /\ FreshStart) =>
       /\ (Made("checkPreconditions") /\ TheCall("checkPreconditions").val
             /\ TheCall("checkPreconditions").err = NoErr) => Made("createOrUpdate")
       /\ Made("createOrUpdate") =>
            /\ secretProtectionFinalizer \in last.postSecret.finalizers
            /\ instanceDeletionFinalizer \in last.post.finalizers
       /\ GetAnnotation(last.post, processedGenerationAnnotation) = "1" =>
            \E i, j \in DOMAIN last.calls :
               /\ i < j
               /\ last.calls[i].op = "createOrUpdate" /\ last.calls[i].err = NoErr
               /\ last.calls[j].op = "Update" /\ last.calls[j].err = NoErr

\* C6 witness: one pass took a fresh object to both finalizers and a
\* persisted "generation processed" = "1".
C6_Witness ==
  /\ FreshStart
  /\ Made("addFinalizer(secret)") /\ Made("addFinalizer(object)")
  /\ Made("createOrUpdate")
  /\ obj.present /\ GetAnnotation(obj, processedGenerationAnnotation) = "1"
  /\ 1 \in hist.created

\* C7: the persisted "instance running" annotation appears only after a
\* Handler.get read-back confirmed the ready state, and a pass over a live
\* object that leaves the persisted object without that annotation returns a
\* requeue directive or an error, never the terminal no-requeue success.
C7_NotRunningImpliesRequeue ==
  /\ (obj.present /\ HasRunningAnnotation(obj)) => hist.confirmed
  /\ (LivePass /\ ~HasRunningAnnotation(last.post)) =>
       (last.res.requeue \/ last.res.err # NoErr)

\* C8: at the end of the running-check phase both persistence attempts are
\* made, the object update also after a failed status update, and if either
\* fails the pass returns an error.
C8_PersistenceFailureSurfaced ==
  (last.ran /\ Made("get")) =>
    /\ Made("Status().Update") /\ Made("Update")
    /\ (TheCall("Status().Update").err # NoErr \/ TheCall("Update").err # NoErr)
         => last.res.err # NoErr

\* The latest pass called Handler.createOrUpdate and it failed.
CreateOrUpdateFailed == last.ran /\ Made("createOrUpdate") /\ TheCall("createOrUpdate").err # NoErr

\* C9 as stated: when createOrUpdate fails the pass aborts with an error
\* without calling get, and the persisted object carries neither the
\* "generation processed" nor the "instance running" annotation.
C9_FailureLeavesAnnotationsCleared ==
  CreateOrUpdateFailed =>
    /\ last.res.err # NoErr /\ ~Made("get")
    /\ ~HasProcessedAnnotation(last.post) /\ ~HasRunningAnnotation(last.post)

\* C9 amended: when createOrUpdate fails the pass aborts with an error
\* without calling get or persisting anything; the annotations are cleared in
\* the in-memory object only, the persisted object keeps the annotations it
\* had, and its generation still counts as unprocessed, so the next pass
\* calls createOrUpdate again.
C9_FailureAbortsUnprocessed ==
  CreateOrUpdateFailed =>
    /\ last.res.err # NoErr /\ ~last.res.requeue
    /\ ~Made("get") /\ ~Made("Status().Update") /\ ~Made("Update")
    /\ ~HasProcessedAnnotation(last.o) /\ ~HasRunningAnnotation(last.o)
    /\ last.post.annotations = last.pre.annotations
    /\ ~ProcessedAtCurrentGeneration(last.post)

\* C9 witness: createOrUpdate failed for a new generation of an object whose
\* earlier generation had been processed and confirmed running.
C9_Witness ==
  /\ CreateOrUpdateFailed
  /\ HasProcessedAnnotation(last.post) /\ HasRunningAnnotation(last.post)
  /\ last.post.generation = 2

\* The latest pass made a finalizer change whose persisting failed.
FinalizerOps == {"addFinalizer(secret)", "addFinalizer(object)", "removeFinalizer(object)"}
FinalizerPersistFailed ==
  last.ran /\ \E k \in DOMAIN last.calls :
                 last.calls[k].op \in FinalizerOps /\ last.calls[k].err # NoErr

\* C10 as stated: when persisting a finalizer change fails the pass aborts
\* with an error and the persisted object and secret are what they were at
\* the start of the pass.
C10_FinalizerFailureChangesNothing ==
  FinalizerPersistFailed =>
    /\ last.res.err # NoErr
    /\ last.post = last.pre
    /\ last.postSecret = last.preSecret

\* C10 amended: when persisting a finalizer change fails the pass aborts
\* with an error at that call and the persisted object is what it was at the
\* start of the pass; the persisted secret is too, except that when adding
\* the deletion finalizer fails, a secret-protection finalizer persisted
\* earlier in the same pass stays on the secret.
C10_FinalizerFailureKeepsObject ==
  FinalizerPersistFailed =>
    /\ last.res.err # NoErr /\ ~last.res.requeue
    /\ last.calls[Len(last.calls)].op \in FinalizerOps
    /\ last.calls[Len(last.calls)].err # NoErr
    /\ last.post = last.pre
    /\ IF Made("addFinalizer(secret)") /\ Made("addFinalizer(object)")
       THEN last.postSecret.finalizers =
              last.preSecret.finalizers \cup {secretProtectionFinalizer}
       ELSE last.postSecret = last.preSecret

\* C10 witness: adding the deletion finalizer failed after the same pass had
\* persisted the secret-protection finalizer.
C10_Witness ==
  /\ FinalizerPersistFailed
  /\ Made("addFinalizer(secret)") /\ Made("addFinalizer(object)")
  /\ last.postSecret # last.preSecret

\* The three waiting outcomes of the latest pass.
PreconditionsNotMet ==
  /\ last.ran /\ Made("checkPreconditions")
  /\ ~TheCall("checkPreconditions").val /\ TheCall("checkPreconditions").err = NoErr
RemoteNotFound == last.ran /\ Made("get") /\ IsNotFound(TheCall("get").err)
NotYetRunning ==
  /\ last.ran /\ Made("get") /\ TheCall("get").err = NoErr
  /\ ~(Made("createOrUpdateSecret") /\ TheCall("createOrUpdateSecret").err # NoErr)
  /\ ~HasRunningAnnotation(last.o)

\* C11: preconditions not met, remote resource not found on read-back and
\* read-back not yet running each return requeue=true after 10 seconds with
\* no error, and no pass returns a requeue with another interval.
C11_OneRequeueInterval ==
  /\ (PreconditionsNotMet \/ RemoteNotFound \/ NotYetRunning) =>
       last.res = Result(TRUE, 10, NoErr)
  /\ last.res.requeue => (last.res.after = 10 /\ last.res.err = NoErr)
  /\ ~last.res.requeue => last.res.after = 0

\* C11 witness: a pass ended in the requeue because the remote resource was
\* not found on read-back.
C11_Witness == RemoteNotFound /\ last.res = Result(TRUE, 10, NoErr)

\* The forced-removal exception as the design defines it: the delete failed
\* with an invalid-credential error on an object that was never processed
\* (carries no "generation processed" annotation) and never marked running.
ForcedRemovalNeverProcessed(o, err) ==
  /\ InvalidCredential(err)
  /\ ~HasProcessedAnnotation(o)
  /\ ~HasRunningAnnotation(o)

\* C12: when Handler.delete fails and the forced-removal exception does not
\* apply, the pass returns an error and the deletion finalizer stays on the
\* persisted object (so that a later pass invokes Handler.delete again).
C12_FailedDeleteKeepsFinalizer ==
  (/\ FinalizingPass
   /\ TheCall("delete").err # NoErr
   /\ ~ForcedRemovalNeverProcessed(last.pre, TheCall("delete").err))
  =>
  /\ last.res.err # NoErr
  /\ last.post.present
  /\ instanceDeletionFinalizer \in last.post.finalizers

\* C13: when the credential secret cannot be fetched or the provider client
\* cannot be built, the pass returns an error, calls nothing and modifies
\* neither the object nor the secret.
C13_NoCredentialsNoMutation ==
  (last.ran /\ last.load \in {"secret", "client"}) =>
    /\ last.res.err # NoErr /\ ~last.res.requeue
    /\ last.calls = <<>>
    /\ last.o = last.pre
    /\ last.post = last.pre
    /\ last.postSecret = last.preSecret

\* C13 witness: the secret of a newly observed object could not be fetched.
C13_Witness ==
  /\ last.ran /\ last.load = "secret"
  /\ instanceDeletionFinalizer \notin last.pre.finalizers
  /\ Contains(last.res.err.msg, <<"cannot", "get", "secret:">>)

\* C14: when the provider answers not-found to the delete, the handler's
\* delete returns finalized=true without error and the engine removes the
\* deletion finalizer; when it answers not-found in a dependency check, the
\* check counts as not running and the pass waits instead of failing.
C14_NotFoundIsNotAnError ==
  /\ (FinalizingPass /\ IsNotFound(hist.provider.del)) =>
       /\ TheCall("delete").val /\ TheCall("delete").err = NoErr
       /\ Made("removeFinalizer(object)")
       /\ instanceDeletionFinalizer \notin last.o.finalizers
       /\ (TheCall("removeFinalizer(object)").err = NoErr =>
             ~(last.post.present /\ instanceDeletionFinalizer \in last.post.finalizers))
  /\ (/\ last.ran /\ Made("checkPreconditions")
      /\ \/ IsNotFound(hist.provider.src.err)
         \/ (hist.provider.src = ServiceRunning /\ IsNotFound(hist.provider.dst.err)))
     =>
       /\ ~TheCall("checkPreconditions").val
       /\ TheCall("checkPreconditions").err = NoErr
       /\ last.res = Result(TRUE, 10, NoErr)

\* C14 witness: the provider answered not-found to the delete and the pass
\* removed the deletion finalizer from the persisted object.
C14_Witness ==
  /\ FinalizingPass /\ IsNotFound(hist.provider.del)
  /\ ~(obj.present /\ instanceDeletionFinalizer \in obj.finalizers)

\* C15: createOrUpdate of the service integration handler sends a create
\* exactly when the status holds no remote identifier and an update
\* otherwise; when the provider call succeeds it returns without error with
\* the identifier recorded and the generation marked processed; a "user
\* config not changed" answer to an update is a success.
C15_CreateOrUpdateRecordsSuccess ==
  (last.ran /\ Len(last.calls) = 1) =>
    LET e == last.calls[1]
        answer == hist.provider.cou
    IN /\ e.op \in {"ServiceIntegrations.Create", "ServiceIntegrations.Update"}
       /\ (e.op = "ServiceIntegrations.Create") <=> (last.pre.statusID = "")
       /\ answer.err = NoErr =>
            /\ e.val /\ e.err = NoErr
            /\ last.o.statusID = answer.id
            /\ ProcessedAtCurrentGeneration(last.o)
       /\ answer.err = ErrNotChanged => (e.val /\ e.err = NoErr)

\* The precondition check of the latest pass returned an error.
PreconditionsFailed ==
  last.ran /\ Made("checkPreconditions") /\ TheCall("checkPreconditions").err # NoErr

\* C16: when checkPreconditions returns false the pass calls neither
\* createOrUpdate nor get, persists neither status nor annotations, and the
\* persisted object differs from the one it started from at most by the
\* deletion finalizer, so a repeated pass changes nothing; when it returns
\* an error the pass fails with that error and calls neither handler method.
C16_PreconditionsGate ==
  /\ PreconditionsNotMet =>
       /\ \A op \in {"createOrUpdate", "get", "createOrUpdateSecret",
                     "Status().Update", "Update"} : ~Made(op)
       /\ last.res.requeue /\ last.res.err = NoErr
       /\ last.o.annotations = last.pre.annotations
       /\ last.o.statusID = last.pre.statusID
       /\ last.post = [last.pre EXCEPT !.finalizers = @ \cup {instanceDeletionFinalizer}]
       /\ last.postSecret =
            [last.preSecret EXCEPT !.finalizers = @ \cup {secretProtectionFinalizer}]
  /\ PreconditionsFailed =>
       /\ ~Made("createOrUpdate") /\ ~Made("get")
       /\ ~last.res.requeue
       /\ last.res.err =
            Wrap(<<"unable", "to", "wait", "for", "preconditions:">>,
                 TheCall("checkPreconditions").err)
       /\ last.post.annotations = last.pre.annotations
       /\ last.post.statusID = last.pre.statusID

\* C16 witness: a pass that found the preconditions not met was repeated
\* and left the persisted object and secret as it found them.
C16_Witness ==
  /\ PreconditionsNotMet
  /\ instanceDeletionFinalizer \in last.pre.finalizers
  /\ secretProtectionFinalizer \in last.preSecret.finalizers
  /\ last.post = last.pre /\ last.postSecret = last.preSecret

\* The latest pass ran the helper on an object marked for deletion that
\* does not carry the deletion finalizer.
ReleasedPass ==
  /\ last.ran /\ last.loaded /\ last.pre.present /\ last.pre.deleting
  /\ instanceDeletionFinalizer \notin last.pre.finalizers

\* C17: for an object marked for deletion without the deletion finalizer
\* the pass does nothing: no handler call, no finalizer added to the object
\* or the secret, nothing persisted, result no-requeue without error.
C17_ReleasedObjectIsLeftAlone ==
  ReleasedPass =>
    /\ last.calls = <<>>
    /\ last.o = last.pre
    /\ last.post = last.pre
    /\ last.postSecret = last.preSecret
    /\ last.res = Result(FALSE, 0, NoErr)

\* C17 witness: such a pass ran on an object another owner still holds.
C17_Witness == ReleasedPass /\ foreignFinalizer \in last.pre.finalizers

\* Handler.delete of the latest pass returned (finalized=false, no error).
DeleteNotFinalised ==
  /\ FinalizingPass /\ Made("delete")
  /\ ~TheCall("delete").val /\ TheCall("delete").err = NoErr

\* C18: when Handler.delete returns (false, nil) the pass returns requeue
\* after 10 seconds with no error, and the deletion finalizer is still on
\* the in-memory object and on the persisted object.
C18_NotFinalisedRequeues ==
  DeleteNotFinalised =>
    /\ last.res = Result(TRUE, 10, NoErr)
    /\ instanceDeletionFinalizer \in last.o.finalizers
    /\ last.post.present
    /\ instanceDeletionFinalizer \in last.post.finalizers
    /\ last.post = last.pre

\* C18 witness: a finalizing pass whose delete reported not finalized.
C18_Witness == DeleteNotFinalised /\ last.res.requeue

\* The persisted object still carries the deletion finalizer.
HoldsDeletionFinalizer == obj.present /\ instanceDeletionFinalizer \in obj.finalizers

\* C19: under LiveSpec an object marked for deletion that carries the
\* deletion finalizer eventually loses it from the persisted object, and no
\* step puts the deletion finalizer on an object that is marked for deletion.
C19_DeletionCompletes ==
  /\ (obj.deleting /\ HoldsDeletionFinalizer) ~> ~HoldsDeletionFinalizer
  /\ [][(obj.present /\ obj.deleting /\ ~HoldsDeletionFinalizer)
          => ~HoldsDeletionFinalizer']_vars

\* C19 witness: a finalizing pass whose finalizer removal the store
\* accepted, after which the persisted object no longer carries it.
C19_Witness ==
  /\ FinalizingPass /\ Made("removeFinalizer(object)")
  /\ TheCall("removeFinalizer(object)").err = NoErr
  /\ TheCall("delete").val /\ TheCall("delete").err = NoErr
  /\ ~HoldsDeletionFinalizer

\* The latest pass returned the terminal Running result and the persisted
\* object is marked processed at its current generation and running.
TerminalRunning ==
  /\ LivePass /\ last.res = Result(FALSE, 0, NoErr)
  /\ obj = last.post
  /\ ProcessedAtCurrentGeneration(obj)
  /\ HasRunningAnnotation(obj)

\* C20: under LiveSpec an object that is not marked for deletion, whatever
\* earlier passes left persisted, eventually reaches a pass that returns the
\* terminal Running result with the current generation marked processed and
\* instance-is-running persisted (unless it is marked for deletion first).
C20_Converges ==
  (obj.present /\ ~obj.deleting) ~> (TerminalRunning \/ obj.deleting)

\* C20 witness: the terminal pass started from the state left by a pass
\* whose createOrUpdate succeeded and whose status was persisted but whose
\* annotations were not.
C20_Witness ==
  /\ TerminalRunning
  /\ Made("createOrUpdate")
  /\ last.pre.statusID # "" /\ ~HasProcessedAnnotation(last.pre)

\* createOrUpdate succeeded in the latest pass.
CreateOrUpdateSucceeded ==
  last.ran /\ Made("createOrUpdate") /\ TheCall("createOrUpdate").err = NoErr

\* The read-back of the latest pass did not succeed: get failed or reported
\* not-found, or the secret could not be materialized.
ReadBackFailed ==
  /\ last.ran /\ Made("get")
  /\ \/ TheCall("get").err # NoErr
     \/ (Made("createOrUpdateSecret") /\ TheCall("createOrUpdateSecret").err # NoErr)

\* C21: a pass whose createOrUpdate succeeded attempts the status update and
\* the object update before it returns, whatever the read-back did; when
\* the object update was accepted the persisted object is marked processed
\* at its generation, and the pass that starts from that persisted object
\* does not call createOrUpdate again.
C21_ProcessedRecordSurvivesReadBack ==
  /\ [](CreateOrUpdateSucceeded =>
          /\ Made("get") /\ Made("Status().Update") /\ Made("Update")
          /\ TheCall("Update").err = NoErr => ProcessedAtCurrentGeneration(last.post))
  /\ [][(/\ CreateOrUpdateSucceeded /\ TheCall("Update").err = NoErr
         /\ last' # last /\ last'.pre = last.post)
        => ~Made("createOrUpdate")']_vars

\* C21 witness: createOrUpdate succeeded, the read-back failed, the object
\* update was accepted and the persisted object is marked processed.
C21_Witness ==
  /\ CreateOrUpdateSucceeded /\ ReadBackFailed
  /\ TheCall("Update").err = NoErr
  /\ obj = last.post /\ ProcessedAtCurrentGeneration(obj)

\* C22: no step takes the secret-protection finalizer off the persisted
\* secret, also not the pass that removes the object's deletion finalizer,
\* and the only finalizer a pass takes off the object, in memory or
\* persisted, is the instance-deletion finalizer.
C22_SecretFinalizerIsNeverRemoved ==
  /\ [][(secretProtectionFinalizer \in secret.finalizers)
          => (secretProtectionFinalizer \in secret'.finalizers)]_vars
  /\ [](last.ran =>
          /\ last.preSecret.finalizers \subseteq last.postSecret.finalizers
          /\ (last.pre.finalizers \ last.post.finalizers) \subseteq {instanceDeletionFinalizer}
          /\ (last.pre.finalizers \ last.o.finalizers) \subseteq {instanceDeletionFinalizer})

\* C22 witness: the object lost its deletion finalizer and was collected,
\* and the secret still carries the secret-protection finalizer.
C22_Witness ==
  /\ FinalizingPass /\ Made("removeFinalizer(object)")
  /\ ~obj.present
  /\ secretProtectionFinalizer \in secret.finalizers

\* A field of a configuration that is not set: a nil pointer, an empty
\* string, or a nested structure none of whose fields is set.
RECURSIVE Unset(_)
Unset(x) ==
  \/ x.kind = "ptr" /\ (x.sub = <<>> \/ (x.val = "struct" /\ Unset(x.sub[1])))
  \/ x.kind = "string" /\ x.val = ""
  \/ x.kind = "struct" /\ \A tag \in DOMAIN x.sub : Unset(x.sub[tag])

\* A scalar field that is present, and the value it holds.
PresentScalar(x) ==
  \/ x.kind = "ptr" /\ x.sub # <<>> /\ x.val \in {"int64", "bool", "string"}
  \/ x.kind = "string" /\ x.val # ""
Dereferenced(x) == IF x.kind = "ptr" THEN x.sub[1] ELSE x

\* No key of the mapping m, at any depth, maps to nil, to an empty string
\* or to an empty mapping.
RECURSIVE Pruned(_)
Pruned(m) ==
  \A k \in DOMAIN m.sub :
    LET val == m.sub[k] IN
    /\ ~isNil(val)
    /\ ~(val.kind = "string" /\ val.val = "")
    /\ val.kind = "map" => (DOMAIN val.sub # {} /\ Pruned(val))

\* C23: UserConfigurationToAPI yields an empty mapping for a structure whose
\* optional fields are all unset, exactly a one-key mapping holding the
\* dereferenced value for a structure with one present scalar field and the
\* rest unset, and no key of a result maps to nil, an empty string or an
\* empty nested mapping.
C23_FlattenPrunes ==
  last.ran =>
    LET c == last.c
        m == last.result
        Present == {tag \in DOMAIN c.sub : ~Unset(c.sub[tag])}
    IN /\ m.kind = "map"
       /\ Present = {} => DOMAIN m.sub = {}
       /\ \A tag \in Present :
            (Present = {tag} /\ PresentScalar(c.sub[tag])) =>
              /\ DOMAIN m.sub = {JsonName(tag)}
              /\ m.sub[JsonName(tag)] = Dereferenced(c.sub[tag])
       /\ Pruned(m)

====
